---------------------------- MODULE Spec2Model ----------------------------
(***************************************************************************)
(* Model of the post ingestion and feed caching pipeline of src/main.go:   *)
(* the posts directory, the fsnotify watcher goroutine, the sync.Once gate *)
(* postsOnce, parsePosts and the three request handlers that call it.      *)
(*                                                                         *)
(* The specifications share the definitions below.                         *)
(*   Spec     the concurrent program: request goroutines, the watcher      *)
(*            goroutine and the filesystem, one step per access to a       *)
(*            shared variable.                                             *)
(*   SpecSeq  parsePosts run to completion, one call after another, over   *)
(*            directories of up to MaxFiles files.                         *)
(*   SpecOne  one request goroutine and the watcher, over files that may   *)
(*            make parsePosts panic; SpecOneFair adds the scheduler's      *)
(*            fairness.                                                    *)
(*   SpecErr  errorHandler applied to one call.                            *)
(*                                                                         *)
(* File contents are byte sequences over a small alphabet:                 *)
(*   "+"            the marker byte (the marker is three of them)          *)
(*   "1" "2" "3"    a well-formed TOML block giving Title and Datetime,    *)
(*                  at instant 1, 2 or 3, written in UTC                   *)
(*   "z"            a well-formed TOML block with instant 2 written with a *)
(*                  non-UTC offset                                         *)
(*   "i"            a well-formed TOML block that sets the key ID          *)
(*   "x"            any other byte: Markdown text, and not valid TOML      *)
(***************************************************************************)
EXTENDS Integers, Sequences, FiniteSets, TLC

\* Bounds of the model.
MaxFiles == 11        \* file names in the posts directory (SpecSeq)
MaxEdits == 1         \* directory changes after start (SpecSeq)
MaxClock == 2         \* clock ticks, two ticks to the second
ConcFiles == 1        \* file names in the posts directory (Spec)
NumReqs == 2          \* request goroutines alive at once (Spec)
MaxPending == 1       \* events buffered in postsWatcher.Events (Spec)

\* Program constant: the feed item cap of parsePosts.
FeedCap == 10

VARIABLES
    files,             \* the posts directory: file key -> [st, b]
    pending,           \* events waiting in postsWatcher.Events
    feedTemplate,      \* the parsed feed.xml template (fixed by init)
    postsOnce,         \* sync.Once: [done, locked, waiters, sema]
    posts,             \* map[string]post
    orderedPosts,      \* []post
    feed,              \* []byte
    feedETag,          \* string
    feedLastModified,  \* string
    now,               \* the wall clock, in half seconds
    pc,                \* request goroutine -> position in its handler
    req,               \* request goroutine -> [handler, ID]
    loc,               \* request goroutine -> locals of parsePosts
    resp,              \* request goroutine -> the response being written
    aborted,           \* the runtime has thrown a fatal error
    evSeen,            \* history: the watcher has processed an event
    sinceEv,           \* history: the request called Do after the last event
    called,            \* history: a request has called Do since the last event
    firstAfter,        \* history: the request is the first to call Do after an event,
                       \*          and no file has changed since
    runsSince,         \* history: calls of parsePosts begun by the requests of sinceEv
    fresh,             \* history: a refresh that scanned after the last file change
                       \*          is complete
    lastScan,          \* history: the directory the last sequential refresh saw
    outcome,           \* history: how the last sequential refresh ended
    built,             \* history: the bytes the last refresh built
    repeated,          \* history: the last refresh saw the directory of the one before
    edits,             \* history: directory changes so far (SpecSeq)
    DebugMode,         \* air.DebugMode
    errCall            \* a call of errorHandler: its arguments, the response, its position

vars == <<files, pending, feedTemplate, postsOnce, posts, orderedPosts, feed,
          feedETag, feedLastModified, now, pc, req, loc, resp, aborted,
          evSeen, sinceEv, called, firstAfter, runsSince, fresh, lastScan, outcome, built, repeated, edits,
          DebugMode, errCall>>

Errors == <<DebugMode, errCall>>

-----------------------------------------------------------------------------
(* The posts directory and file names *)

Letters == <<"a", "b", "c", "d", "e", "f", "g", "h", "i", "j", "k", "l", "m", "n">>

\* The path filepath.Glob("posts/*.md") returns for file key k; keys are in
\* the lexical order Glob returns names in.
FileName(k) == <<"p", "o", "s", "t", "s", "/">> \o <<Letters[k]>> \o <<".", "m", "d">>

Absent == [st |-> "absent", b |-> <<>>]
Unreadable == [st |-> "unreadable", b |-> <<>>]
File(b) == [st |-> "ok", b |-> b]

\* filepath.Glob: the names present, sorted.
Glob(dir) ==
    LET present == {k \in DOMAIN dir : dir[k].st # "absent"}
        F[S \in SUBSET present] ==
            IF S = {} THEN <<>>
            ELSE LET k == CHOOSE m \in S : \A o \in S : m <= o
                 IN <<FileName(k)>> \o F[S \ {k}]
    IN F[present]

\* ioutil.ReadFile with its error dropped: no bytes for a file that cannot
\* be read.
ReadFile(dir, fn) ==
    LET k == CHOOSE m \in DOMAIN dir : FileName(m) = fn
    IN IF dir[k].st = "ok" THEN dir[k].b ELSE <<>>

-----------------------------------------------------------------------------
(* Front matter *)

Marker == <<"+", "+", "+">>

\* b[lo:] and b[lo:hi] on byte slices, offsets from 0.
SliceFrom(b, lo) == SubSeq(b, lo + 1, Len(b))
Slice(b, lo, hi) == SubSeq(b, lo + 1, hi)

HasMarkerAt(b, k) == k + 3 <= Len(b) /\ SubSeq(b, k + 1, k + 3) = Marker

\* bytes.Count: non-overlapping occurrences of the marker.
RECURSIVE CountFrom(_, _)
CountFrom(b, k) ==
    IF k + 3 > Len(b) THEN 0
    ELSE IF HasMarkerAt(b, k) THEN 1 + CountFrom(b, k + 3)
    ELSE CountFrom(b, k + 1)
Count(b) == CountFrom(b, 0)

\* bytes.Index: offset of the first occurrence, -1 when there is none.
RECURSIVE IndexFrom(_, _)
IndexFrom(b, k) ==
    IF k + 3 > Len(b) THEN -1
    ELSE IF HasMarkerAt(b, k) THEN k
    ELSE IndexFrom(b, k + 1)
Index(b) == IndexFrom(b, 0)

ZeroTime == [t |-> 0, loc |-> "UTC"]

\* time.Time.UTC: the same instant, location UTC.
UTC(d) == [t |-> d.t, loc |-> "UTC"]

\* time.Time.After compares instants.
After(d, e) == d.t > e.t

\* toml.Unmarshal(span, &p): the keys of the block overwrite the fields of p
\* they name; anything that is not a well-formed block is an error.
Unmarshal(span, p) ==
    IF span = <<>> THEN [err |-> FALSE, p |-> p]
    ELSE IF Len(span) = 1 /\ span[1] \in {"1", "2", "3"}
    THEN [err |-> FALSE,
          p |-> [p EXCEPT !.Title = span,
                          !.Datetime = [t |-> CHOOSE n \in 1..3 : <<"1", "2", "3">>[n] = span[1],
                                        loc |-> "UTC"]]]
    ELSE IF span = <<"z">>
    THEN [err |-> FALSE,
          p |-> [p EXCEPT !.Title = span, !.Datetime = [t |-> 2, loc |-> "+08"]]]
    ELSE IF span = <<"i">>
    THEN [err |-> FALSE, p |-> [p EXCEPT !.ID = <<"a">>]]
    ELSE [err |-> TRUE, p |-> p]

\* blackfriday.Run: the Markdown body rendered to an HTML fragment.
Run(body) == [html |-> body]

\* fn[6 : len(fn)-3]
PostID(fn) == SubSeq(fn, 7, Len(fn) - 3)

\* Lines 169-170: the offsets i and j.
Offsets(b) ==
    LET i == Index(b)
    IN [i |-> i, j |-> Index(SliceFrom(b, i + 3)) + 3]

\* The body of the loop of parsePosts for one file: "skip" for continue,
\* "panic" when a slice expression is out of range, else the post.
ParseFile(fn, b) ==
    IF Count(b) < 2 THEN [kind |-> "skip"]
    ELSE LET i == Offsets(b).i
             j == Offsets(b).j
         IN IF j + 3 > Len(b) \/ i + 3 > j \/ 6 > Len(fn) - 3
            THEN [kind |-> "panic"]
            ELSE LET p0 == [ID |-> PostID(fn), Title |-> <<>>, Datetime |-> ZeroTime,
                            Content |-> Run(SliceFrom(b, j + 3))]
                     d == Unmarshal(Slice(b, i + 3, j), p0)
                 IN IF d.err THEN [kind |-> "skip"]
                    ELSE [kind |-> "post",
                          p |-> [d.p EXCEPT !.Datetime = UTC(d.p.Datetime)]]

StaleSlice(old) == old

\* make([]post, 0, len(fns)) and make(map[string]post, len(fns)).
FreshSlice(old) == <<>>
FreshMap(old) == [id \in {} |-> ZeroTime]

MapPut(m, id, p) == [x \in DOMAIN m \cup {id} |-> IF x = id THEN p ELSE m[x]]

\* The loop of parsePosts over the globbed names, from the given map and
\* slice.
RECURSIVE ScanLoop(_, _, _, _)
ScanLoop(dir, fns, nps, nops) ==
    IF fns = <<>> THEN [panic |-> FALSE, nps |-> nps, nops |-> nops]
    ELSE LET r == ParseFile(Head(fns), ReadFile(dir, Head(fns)))
         IN IF r.kind = "panic" THEN [panic |-> TRUE, nps |-> nps, nops |-> nops]
            ELSE IF r.kind = "skip" THEN ScanLoop(dir, Tail(fns), nps, nops)
            ELSE ScanLoop(dir, Tail(fns), MapPut(nps, r.p.ID, r.p), Append(nops, r.p))

-----------------------------------------------------------------------------
(* Ordering *)

Swap(s, a, b) == [s EXCEPT ![a] = s[b], ![b] = s[a]]

LessBefore(s, a, b) == After(s[b].Datetime, s[a].Datetime)

\* The comparison handed to sort.Slice.
Less(s, a, b) == After(s[a].Datetime, s[b].Datetime)

\* sort.Slice on a slice of at most 12 elements is an insertion sort.
RECURSIVE Sink(_, _)
Sink(s, j) == IF j > 1 /\ Less(s, j, j - 1) THEN Sink(Swap(s, j, j - 1), j - 1) ELSE s

RECURSIVE InsertionSort(_, _)
InsertionSort(s, i) == IF i > Len(s) THEN s ELSE InsertionSort(Sink(s, i), i + 1)

SortSlice(s) == InsertionSort(s, 2)

\* Lines 160-188 of parsePosts: its locals nps and nops, or a panic.
ScanPosts(dir, oldMap, oldSlice) ==
    LET r == ScanLoop(dir, Glob(dir), FreshMap(oldMap), FreshSlice(oldSlice))
    IN [panic |-> r.panic, nps |-> r.nps, nops |-> SortSlice(r.nops)]

-----------------------------------------------------------------------------
(* Feed *)

LatestUncapped(ops) == ops

\* latestPosts
LatestPosts(ops) == IF Len(ops) > FeedCap THEN SubSeq(ops, 1, FeedCap) ELSE ops

Ws == [tag |-> "ws"]

\* feedTemplate.Execute: the document for the posts handed to it. The
\* template has the helper now; tpl.usesNow says whether it calls it.
Execute(tpl, latest, t) ==
    <<[tag |-> "feed", updated |-> IF tpl.usesNow THEN t \div 2 ELSE 0], Ws>>
    \o [k \in 1..(2 * Len(latest)) |->
            IF k % 2 = 1
            THEN [tag |-> "entry", ID |-> latest[(k + 1) \div 2].ID,
                  Title |-> latest[(k + 1) \div 2].Title,
                  Datetime |-> latest[(k + 1) \div 2].Datetime,
                  Content |-> latest[(k + 1) \div 2].Content]
            ELSE Ws]

\* The XML minifier drops the whitespace between elements.
RECURSIVE Minify(_)
Minify(doc) ==
    IF doc = <<>> THEN <<>>
    ELSE IF Head(doc) = Ws THEN Minify(Tail(doc))
    ELSE <<Head(doc)>> \o Minify(Tail(doc))

\* Lines 193-204: buf2.Bytes().
BuildFeed(tpl, ops, t) == Minify(Execute(tpl, LatestPosts(ops), t))

\* md5.Sum: a digest, taken to be free of collisions on the documents of
\* the model.
MD5(b) == [md5 |-> b]

\* fmt.Sprintf(`"%x"`, md5.Sum(feed))
ETagOf(b) == <<"\"", MD5(b), "\"">>

\* time.Now().UTC().Format(http.TimeFormat): whole seconds.
HTTPTime(t) == <<t \div 2>>

\* bytes.Equal(b, feed)
BytesEqual(a, b) == a = b

-----------------------------------------------------------------------------
(* State at process start *)

Reqs == 1..NumReqs

NoLocals == [panic |-> FALSE, nps |-> <<>>, nops |-> <<>>, buf |-> <<>>, scanFresh |-> FALSE]
NoRequest == [handler |-> "none", ID |-> <<>>]
NoResponse == [status |-> 0]

\* The zero sync.Once.
ZeroOnce == [done |-> 0, locked |-> FALSE, waiters |-> 0, sema |-> 0]

Templates == {[usesNow |-> FALSE], [usesNow |-> TRUE]}

\* No call of errorHandler is in progress.
NoCall == [pc |-> "none"]

NoErrors == DebugMode = FALSE /\ errCall = NoCall

\* The package variables as the runtime zeroes them and init leaves them.
InitProgram ==
    /\ pending = 0
    /\ feedTemplate \in Templates
    /\ postsOnce = ZeroOnce
    /\ posts = <<>>
    /\ orderedPosts = <<>>
    /\ feed = <<>>
    /\ feedETag = <<>>
    /\ feedLastModified = <<>>
    /\ now = 0
    /\ pc = [r \in Reqs |-> "idle"]
    /\ req = [r \in Reqs |-> NoRequest]
    /\ loc = [r \in Reqs |-> NoLocals]
    /\ resp = [r \in Reqs |-> NoResponse]
    /\ aborted = FALSE
    /\ evSeen = FALSE
    /\ sinceEv = [r \in Reqs |-> FALSE]
    /\ called = FALSE
    /\ firstAfter = [r \in Reqs |-> FALSE]
    /\ runsSince = 0
    /\ fresh = FALSE
    /\ lastScan = <<>>
    /\ outcome = "none"
    /\ built = <<>>
    /\ repeated = FALSE
    /\ edits = 0

-----------------------------------------------------------------------------
(* parsePosts, run to completion *)

StoreFeedAlways(old, b, t) ==
    [feed |-> b, feedETag |-> ETagOf(b), feedLastModified |-> HTTPTime(t)]

\* Lines 206-210: the stored feed, ETag and Last-Modified after the bytes b
\* were built at time t.
StoreFeed(old, b, t) ==
    IF ~BytesEqual(b, old.feed)
    THEN [feed |-> b, feedETag |-> ETagOf(b), feedLastModified |-> HTTPTime(t)]
    ELSE old

Post(tok) == File(Marker \o <<tok>> \o Marker \o <<"x">>)

\* File contents a directory change may write.
SeqMenu ==
    { Post("3"),                                       \* a post
      Post("i"),                                       \* a post whose metadata sets ID
      File(Marker \o <<"x">> \o Marker),               \* metadata is not TOML
      File(<<"x">> \o Marker \o <<"x">> \o Marker \o <<"x">>), \* a byte before the first marker
      Absent }

\* A post with two bytes before its first marker.
LeadingBytes == File(<<"x", "x">> \o Marker \o <<"1">> \o Marker)

\* Directories at start: the first n names present.
SeqContent(pat, k) ==
    IF pat = "posts" THEN Post(<<"2", "1", "3">>[(k % 3) + 1])
    ELSE IF k % 4 = 0 THEN File(Marker \o <<"1">>)
    ELSE IF k % 4 = 1 THEN Post(<<"z", "2", "1">>[(k % 3) + 1])
    ELSE IF k % 4 = 2 THEN (IF k = 2 THEN Unreadable ELSE File(Marker \o Marker))
    ELSE (IF k = 7 THEN LeadingBytes ELSE Post("3"))

SeqDirs ==
    { [k \in 1..MaxFiles |-> IF k <= n THEN SeqContent(pat, k) ELSE Absent] :
        n \in 0..MaxFiles, pat \in {"posts", "mixed"} }

SeqInit == InitProgram /\ files \in SeqDirs /\ NoErrors

SeqUnchanged == UNCHANGED <<pending, feedTemplate, postsOnce, pc, req, loc, resp, aborted,
                            evSeen, sinceEv, called, firstAfter, runsSince, fresh, Errors>>

\* A file of the directory is written, replaced or removed.
SeqWriteFile ==
    /\ edits < MaxEdits
    /\ \E k \in {1, 2}, c \in SeqMenu :
          /\ files[k] # c
          /\ files' = [files EXCEPT ![k] = c]
    /\ edits' = edits + 1
    /\ UNCHANGED <<posts, orderedPosts, feed, feedETag, feedLastModified, now,
                   lastScan, outcome, built, repeated>>
    /\ SeqUnchanged

SeqTick ==
    /\ now < MaxClock
    /\ now' = now + 1
    /\ UNCHANGED <<files, posts, orderedPosts, feed, feedETag, feedLastModified,
                   lastScan, outcome, built, repeated, edits>>
    /\ SeqUnchanged

\* One call of parsePosts with nothing running beside it. A panic in the
\* loop leaves every package variable as it was.
SeqParsePosts ==
    LET s == ScanPosts(files, posts, orderedPosts)
        b == BuildFeed(feedTemplate, s.nops, now)
        f == StoreFeed([feed |-> feed, feedETag |-> feedETag,
                        feedLastModified |-> feedLastModified], b, now)
    IN /\ lastScan' = files
       /\ repeated' = (outcome # "none" /\ lastScan = files)
       /\ IF s.panic
          THEN /\ outcome' = "panic"
               /\ UNCHANGED <<posts, orderedPosts, feed, feedETag, feedLastModified, built>>
          ELSE /\ outcome' = "ok"
               /\ posts' = s.nps
               /\ orderedPosts' = s.nops
               /\ built' = b
               /\ feed' = f.feed
               /\ feedETag' = f.feedETag
               /\ feedLastModified' = f.feedLastModified
       /\ UNCHANGED <<files, now, edits>>
       /\ SeqUnchanged

SeqNext == SeqWriteFile \/ SeqTick \/ SeqParsePosts

SpecSeq == SeqInit /\ [][SeqNext]_vars

-----------------------------------------------------------------------------
(* The concurrent program *)

\* The directories of Spec: each of the first ConcFiles names holds a post or
\* is absent. Files that make the parse panic are the business of SpecSeq.
ConcMenu == {Post("1"), Absent}

ConcDirs ==
    { d \in [1..MaxFiles -> ConcMenu] : \A k \in (ConcFiles + 1)..MaxFiles : d[k] = Absent }

\* The clock stands still in Spec, so a template that calls now renders as
\* one that does not.
Init == InitProgram /\ files \in ConcDirs /\ ~feedTemplate.usesNow /\ NoErrors

Handlers == {"postsHandler", "postHandler", "feedHandler"}

\* Values of the :ID parameter.
IDParams == {<<Letters[1]>>}

\* Positions inside parsePosts.
InParsePosts == {"scan", "w_posts", "w_ordered", "build", "cmp", "w_etag", "w_lm"}

\* Positions after postsOnce.Do has returned, before the response is done.
Reading == {"read", "r_lm", "r_feed"}

SeqHistory == <<lastScan, outcome, built, repeated, edits>>
Gate == <<postsOnce, aborted>>
PostIndex == <<posts, orderedPosts>>
Artifact == <<feed, feedETag, feedLastModified>>
Env == <<files, pending, feedTemplate, now>>
GateHistory == <<evSeen, sinceEv, called, firstAfter, runsSince>>

\* A request arrives at one of the three handlers, which calls postsOnce.Do:
\* the fast path reads done.
Request(r) ==
    /\ ~aborted
    /\ pc[r] = "idle"
    /\ \E h \in Handlers :
          \E id \in (IF h = "postHandler" THEN IDParams ELSE {<<>>}) :
             req' = [req EXCEPT ![r] = [handler |-> h, ID |-> id]]
    /\ pc' = [pc EXCEPT ![r] = IF postsOnce.done = 1 THEN "read" ELSE "lock"]
    /\ sinceEv' = [sinceEv EXCEPT ![r] = TRUE]
    /\ firstAfter' = [firstAfter EXCEPT ![r] = (evSeen /\ ~called)]
    /\ called' = TRUE
    /\ UNCHANGED <<Gate, PostIndex, Artifact, Env, loc, resp, evSeen, runsSince, fresh, SeqHistory, Errors>>

\* Once.doSlow: o.m.Lock(). A locked mutex counts the caller as a waiter
\* and parks it on the semaphore.
Lock(r) ==
    /\ ~aborted
    /\ pc[r] = "lock"
    /\ IF ~postsOnce.locked
       THEN /\ postsOnce' = [postsOnce EXCEPT !.locked = TRUE]
            /\ pc' = [pc EXCEPT ![r] = "check"]
       ELSE /\ postsOnce' = [postsOnce EXCEPT !.waiters = @ + 1]
            /\ pc' = [pc EXCEPT ![r] = "sleep"]
    /\ UNCHANGED <<aborted, PostIndex, Artifact, Env, req, loc, resp, GateHistory, fresh, SeqHistory, Errors>>

\* A parked waiter takes a semaphore token and tries the lock again.
Wake(r) ==
    /\ ~aborted
    /\ pc[r] = "sleep"
    /\ postsOnce.sema > 0
    /\ postsOnce' = [postsOnce EXCEPT !.sema = @ - 1]
    /\ pc' = [pc EXCEPT ![r] = "lock"]
    /\ UNCHANGED <<aborted, PostIndex, Artifact, Env, req, loc, resp, GateHistory, fresh, SeqHistory, Errors>>

\* Once.doSlow: if o.done == 0 { defer o.done.Store(1); f() }
Check(r) ==
    /\ ~aborted
    /\ pc[r] = "check"
    /\ pc' = [pc EXCEPT ![r] = IF postsOnce.done = 0 THEN "scan" ELSE "unlock"]
    /\ runsSince' = IF postsOnce.done = 0 /\ sinceEv[r] /\ runsSince < 2
                    THEN runsSince + 1 ELSE runsSince
    /\ UNCHANGED <<Gate, PostIndex, Artifact, Env, req, loc, resp,
                   evSeen, sinceEv, called, firstAfter, fresh, SeqHistory, Errors>>

\* parsePosts, lines 160-188: glob, read and parse the files, sort. A panic
\* unwinds to the deferred calls of doSlow.
Scan(r) ==
    /\ ~aborted
    /\ pc[r] = "scan"
    /\ \E s \in {ScanPosts(files, posts, orderedPosts)} :
          /\ loc' = [loc EXCEPT ![r] = [panic |-> s.panic, nps |-> s.nps, nops |-> s.nops,
                                        buf |-> <<>>, scanFresh |-> TRUE]]
          /\ pc' = [pc EXCEPT ![r] = IF s.panic THEN "store" ELSE "w_posts"]
    /\ UNCHANGED <<Gate, PostIndex, Artifact, Env, req, resp, GateHistory, fresh, SeqHistory, Errors>>

\* Line 190: posts = nps
WritePosts(r) ==
    /\ ~aborted
    /\ pc[r] = "w_posts"
    /\ posts' = loc[r].nps
    /\ pc' = [pc EXCEPT ![r] = "w_ordered"]
    /\ UNCHANGED <<Gate, orderedPosts, Artifact, Env, req, loc, resp, GateHistory, fresh, SeqHistory, Errors>>

\* Line 191: orderedPosts = nops
WriteOrdered(r) ==
    /\ ~aborted
    /\ pc[r] = "w_ordered"
    /\ orderedPosts' = loc[r].nops
    /\ pc' = [pc EXCEPT ![r] = "build"]
    /\ UNCHANGED <<Gate, posts, Artifact, Env, req, loc, resp, GateHistory, fresh, SeqHistory, Errors>>

\* Lines 193-204: the feed is built from the package variable orderedPosts.
Build(r) ==
    /\ ~aborted
    /\ pc[r] = "build"
    /\ loc' = [loc EXCEPT ![r].buf = BuildFeed(feedTemplate, orderedPosts, now),
                          ![r].nps = <<>>, ![r].nops = <<>>]
    /\ pc' = [pc EXCEPT ![r] = "cmp"]
    /\ UNCHANGED <<Gate, PostIndex, Artifact, Env, req, resp, GateHistory, fresh, SeqHistory, Errors>>

\* parsePosts returns: a refresh is complete.
Completed(r) == fresh \/ loc[r].scanFresh

\* Lines 206-207: compare with the stored bytes, store the new ones.
Compare(r) ==
    /\ ~aborted
    /\ pc[r] = "cmp"
    /\ IF ~BytesEqual(loc[r].buf, feed)
       THEN /\ feed' = loc[r].buf
            /\ pc' = [pc EXCEPT ![r] = "w_etag"]
            /\ UNCHANGED fresh
       ELSE /\ UNCHANGED feed
            /\ pc' = [pc EXCEPT ![r] = "store"]
            /\ fresh' = Completed(r)
    /\ loc' = [loc EXCEPT ![r].buf = <<>>]
    /\ UNCHANGED <<Gate, PostIndex, feedETag, feedLastModified, Env, req, resp, GateHistory, SeqHistory, Errors>>

\* Line 208: the ETag is computed from the package variable feed.
WriteETag(r) ==
    /\ ~aborted
    /\ pc[r] = "w_etag"
    /\ feedETag' = ETagOf(feed)
    /\ pc' = [pc EXCEPT ![r] = "w_lm"]
    /\ UNCHANGED <<Gate, PostIndex, feed, feedLastModified, Env, req, loc, resp, GateHistory, fresh, SeqHistory, Errors>>

\* Line 209, the last of parsePosts.
WriteLastModified(r) ==
    /\ ~aborted
    /\ pc[r] = "w_lm"
    /\ feedLastModified' = HTTPTime(now)
    /\ pc' = [pc EXCEPT ![r] = "store"]
    /\ fresh' = Completed(r)
    /\ UNCHANGED <<Gate, PostIndex, feed, feedETag, Env, req, loc, resp, GateHistory, SeqHistory, Errors>>

\* The deferred o.done.Store(1), also run when parsePosts panicked.
StoreDone(r) ==
    /\ ~aborted
    /\ pc[r] = "store"
    /\ postsOnce' = [postsOnce EXCEPT !.done = 1]
    /\ pc' = [pc EXCEPT ![r] = "unlock"]
    /\ UNCHANGED <<aborted, PostIndex, Artifact, Env, req, loc, resp, GateHistory, fresh, SeqHistory, Errors>>

\* A fatal error of the runtime ends the process: its goroutines and its
\* memory are gone, the files stay.
Abort ==
    /\ aborted' = TRUE
    /\ postsOnce' = ZeroOnce
    /\ posts' = <<>>
    /\ orderedPosts' = <<>>
    /\ feed' = <<>>
    /\ feedETag' = <<>>
    /\ feedLastModified' = <<>>
    /\ pc' = [q \in Reqs |-> "idle"]
    /\ req' = [q \in Reqs |-> NoRequest]
    /\ loc' = [q \in Reqs |-> NoLocals]
    /\ resp' = [q \in Reqs |-> NoResponse]
    /\ evSeen' = FALSE
    /\ sinceEv' = [q \in Reqs |-> FALSE]
    /\ called' = FALSE
    /\ firstAfter' = [q \in Reqs |-> FALSE]
    /\ runsSince' = 0
    /\ fresh' = FALSE
    /\ UNCHANGED <<Env, SeqHistory, Errors>>

\* The deferred o.m.Unlock(): fatal on an unlocked mutex; else it clears the
\* lock and hands a token to one counted waiter. A panic of parsePosts then
\* reaches the server, which answers 500.
Unlock(r) ==
    /\ ~aborted
    /\ pc[r] = "unlock"
    /\ IF ~postsOnce.locked
       THEN Abort
       ELSE /\ postsOnce' = [postsOnce EXCEPT
                               !.locked = FALSE,
                               !.waiters = IF @ > 0 THEN @ - 1 ELSE 0,
                               !.sema = IF postsOnce.waiters > 0 THEN @ + 1 ELSE @]
            /\ pc' = [pc EXCEPT ![r] = IF loc[r].panic THEN "done" ELSE "read"]
            /\ resp' = [resp EXCEPT ![r] = IF loc[r].panic THEN [status |-> 500] ELSE @]
            /\ loc' = [loc EXCEPT ![r] = NoLocals]
            /\ UNCHANGED <<aborted, PostIndex, Artifact, Env, req, GateHistory, fresh, SeqHistory, Errors>>

\* postsHandler, lines 220-224: the list is rendered from orderedPosts.
postsHandler(r) ==
    /\ ~aborted
    /\ pc[r] = "read"
    /\ req[r].handler = "postsHandler"
    /\ resp' = [resp EXCEPT ![r] = [status |-> 200, Posts |-> orderedPosts]]
    /\ pc' = [pc EXCEPT ![r] = "done"]
    /\ UNCHANGED <<Gate, PostIndex, Artifact, Env, req, loc, GateHistory, fresh, SeqHistory, Errors>>

\* p, ok := posts[id]: the page of the post, or what notFoundHandler leaves.
Lookup(m, id) ==
    IF id \in DOMAIN m
    THEN [status |-> 200, Post |-> m[id]]
    ELSE [status |-> 404]

\* postHandler, lines 230-240: look the ID up in posts.
postHandler(r) ==
    /\ ~aborted
    /\ pc[r] = "read"
    /\ req[r].handler = "postHandler"
    /\ resp' = [resp EXCEPT ![r] = Lookup(posts, req[r].ID)]
    /\ pc' = [pc EXCEPT ![r] = "done"]
    /\ UNCHANGED <<Gate, PostIndex, Artifact, Env, req, loc, GateHistory, fresh, SeqHistory, Errors>>

\* feedHandler, line 255: the etag header.
feedHandlerETag(r) ==
    /\ ~aborted
    /\ pc[r] = "read"
    /\ req[r].handler = "feedHandler"
    /\ resp' = [resp EXCEPT ![r] = [status |-> 200, etag |-> feedETag]]
    /\ pc' = [pc EXCEPT ![r] = "r_lm"]
    /\ UNCHANGED <<Gate, PostIndex, Artifact, Env, req, loc, GateHistory, fresh, SeqHistory, Errors>>

\* feedHandler, line 256: the last-modified header.
feedHandlerLastModified(r) ==
    /\ ~aborted
    /\ pc[r] = "r_lm"
    /\ resp' = [resp EXCEPT ![r] = [status |-> 200, etag |-> resp[r].etag,
                                    lastModified |-> feedLastModified]]
    /\ pc' = [pc EXCEPT ![r] = "r_feed"]
    /\ UNCHANGED <<Gate, PostIndex, Artifact, Env, req, loc, GateHistory, fresh, SeqHistory, Errors>>

\* feedHandler, line 258: the body.
feedHandlerBody(r) ==
    /\ ~aborted
    /\ pc[r] = "r_feed"
    /\ resp' = [resp EXCEPT ![r] = [status |-> 200, etag |-> resp[r].etag,
                                    lastModified |-> resp[r].lastModified,
                                    body |-> feed]]
    /\ pc' = [pc EXCEPT ![r] = "done"]
    /\ UNCHANGED <<Gate, PostIndex, Artifact, Env, req, loc, GateHistory, fresh, SeqHistory, Errors>>

\* The response is sent and the goroutine serves the next request.
Finish(r) ==
    /\ ~aborted
    /\ pc[r] = "done"
    /\ pc' = [pc EXCEPT ![r] = "idle"]
    /\ req' = [req EXCEPT ![r] = NoRequest]
    /\ resp' = [resp EXCEPT ![r] = NoResponse]
    /\ firstAfter' = [firstAfter EXCEPT ![r] = FALSE]
    /\ sinceEv' = [sinceEv EXCEPT ![r] = FALSE]
    /\ UNCHANGED <<Gate, PostIndex, Artifact, Env, loc, evSeen, called, runsSince, fresh, SeqHistory, Errors>>

\* A file of the posts directory is written, replaced or removed, its new
\* content one of menu, and fsnotify queues an event.
WriteFile(menu) ==
    /\ ~aborted
    /\ pending < MaxPending
    /\ \E k \in 1..ConcFiles, c \in menu :
          /\ files[k] # c
          /\ files' = [files EXCEPT ![k] = c]
    /\ pending' = pending + 1
    /\ fresh' = FALSE
    /\ loc' = [r \in Reqs |-> [loc[r] EXCEPT !.scanFresh = FALSE]]
    /\ firstAfter' = [r \in Reqs |-> FALSE]
    /\ UNCHANGED <<feedTemplate, now, Gate, PostIndex, Artifact, pc, req, resp,
                   evSeen, sinceEv, called, runsSince, SeqHistory, Errors>>

FileChange == WriteFile(ConcMenu)

\* The watcher goroutine, line 70: postsOnce = sync.Once{}
WatcherEvent ==
    /\ ~aborted
    /\ pending > 0
    /\ pending' = pending - 1
    /\ postsOnce' = ZeroOnce
    /\ evSeen' = TRUE
    /\ sinceEv' = [r \in Reqs |-> FALSE]
    /\ firstAfter' = [r \in Reqs |-> FALSE]
    /\ called' = FALSE
    /\ runsSince' = 0
    /\ UNCHANGED <<files, feedTemplate, now, aborted, PostIndex, Artifact, pc, req, loc, resp,
                   fresh, SeqHistory, Errors>>

Next ==
    \/ \E r \in Reqs :
          \/ Request(r) \/ Lock(r) \/ Wake(r) \/ Check(r)
          \/ Scan(r) \/ WritePosts(r) \/ WriteOrdered(r) \/ Build(r) \/ Compare(r)
          \/ WriteETag(r) \/ WriteLastModified(r) \/ StoreDone(r) \/ Unlock(r)
          \/ postsHandler(r) \/ postHandler(r)
          \/ feedHandlerETag(r) \/ feedHandlerLastModified(r) \/ feedHandlerBody(r)
          \/ Finish(r)
    \/ FileChange
    \/ WatcherEvent

Spec == Init /\ [][Next]_vars

-----------------------------------------------------------------------------
(* One request goroutine and the watcher, over files that may not parse *)

Serving == 1

OneMenu == {Post("1"), Post("i"), LeadingBytes, Absent}

OneDirs ==
    { d \in [1..MaxFiles -> OneMenu] : \A k \in (ConcFiles + 1)..MaxFiles : d[k] = Absent }

InitOne == InitProgram /\ files \in OneDirs /\ ~feedTemplate.usesNow /\ NoErrors

FileChangeOne == WriteFile(OneMenu)

\* The steps of a request goroutine once its request has arrived.
Proceed(r) ==
    \/ Lock(r) \/ Check(r)
    \/ Scan(r) \/ WritePosts(r) \/ WriteOrdered(r) \/ Build(r) \/ Compare(r)
    \/ WriteETag(r) \/ WriteLastModified(r) \/ StoreDone(r) \/ Unlock(r)
    \/ postsHandler(r) \/ postHandler(r)
    \/ feedHandlerETag(r) \/ feedHandlerLastModified(r) \/ feedHandlerBody(r)
    \/ Finish(r)

\* The steps of one goroutine. Alone, it finds the mutex free at every Lock
\* and never parks.
Serve(r) == Request(r) \/ Proceed(r)

NextOne == Serve(Serving) \/ FileChangeOne \/ WatcherEvent

SpecOne == InitOne /\ [][NextOne]_vars

\* The Go scheduler runs every goroutine that can run: the request goroutine
\* takes the step it has to take, and the watcher goroutine receives a
\* queued event. Requests and file changes arrive as they please.
SpecOneFair ==
    /\ SpecOne
    /\ WF_vars(Proceed(Serving))
    /\ WF_vars(WatcherEvent)

-----------------------------------------------------------------------------
(* errorHandler *)

Generic == "Internal Server Error"

MessageFor5xx(err, status, debug) ==
    IF status >= 500 /\ ~debug THEN Generic ELSE err

\* Lines 270-273: the message of the error page.
Message(err, status, debug) ==
    IF status = 500 /\ ~debug THEN Generic ELSE err

\* Lines 266-268: a status that is no error status becomes 500.
ErrorStatus(status) == IF status < 400 THEN 500 ELSE status

\* The headers a handler may have set before it failed.
CacheHeaders == {"cache-control", "etag", "last-modified"}

Statuses == {200, 304, 399, 400, 404, 405, 413, 499, 500, 501, 503, 599}
Methods == {"GET", "HEAD", "POST"}
ErrTexts == {"Not Found", "open posts/a.md: permission denied"}

\* The calls of errorHandler: an error, the request's method and the
\* response as the failed handler left it. Status0 and Written0 keep what
\* the response was at the call.
ErrCalls ==
    { [pc |-> "called", err |-> e, Method |-> mt,
       Status |-> st, Written |-> w, Header |-> h,
       Status0 |-> st, Written0 |-> w, Page |-> <<>>] :
        e \in ErrTexts, mt \in Methods, st \in Statuses, w \in BOOLEAN,
        h \in {CacheHeaders, {}} }

InitErr ==
    /\ InitProgram
    /\ files = [k \in 1..MaxFiles |-> Absent]
    /\ ~feedTemplate.usesNow
    /\ DebugMode \in BOOLEAN
    /\ errCall \in ErrCalls

\* errorHandler, lines 261-288.
errorHandler ==
    /\ errCall.pc = "called"
    /\ IF errCall.Written
       THEN errCall' = [errCall EXCEPT !.pc = "returned"]
       ELSE LET status == ErrorStatus(errCall.Status)
                message == Message(errCall.err, status, DebugMode)
            IN errCall' = [errCall EXCEPT
                             !.pc = "returned",
                             !.Status = status,
                             !.Header = IF errCall.Method \in {"GET", "HEAD"}
                                        THEN @ \ CacheHeaders ELSE @,
                             !.Page = <<[Code |-> status, Message |-> message]>>,
                             !.Written = TRUE]
    /\ UNCHANGED <<Env, Gate, PostIndex, Artifact, pc, req, loc, resp,
                   GateHistory, fresh, SeqHistory, DebugMode>>

NextErr == errorHandler

SpecErr == InitErr /\ [][NextErr]_vars

-----------------------------------------------------------------------------
(* Properties of the concurrent program (Spec) *)

Refreshing == {r \in Reqs : pc[r] \in InParsePosts}

\* C1: after a gate reset and with no further watcher event, the requests
\* that call the gate begin parsePosts at most once, and none of them reads
\* the index or the feed while the parsePosts one of them began is running.
C1_SingleFlightAfterReset ==
    /\ runsSince <= 1
    /\ \A r \in Reqs : (sinceEv[r] /\ pc[r] \in Reading) =>
            \A q \in Refreshing : ~sinceEv[q]

\* C2: at most one execution of parsePosts is in progress at any time.
C2_NoConcurrentRebuilds == Cardinality(Refreshing) <= 1

SeqIDs(ops) == {ops[i].ID : i \in 1..Len(ops)}

\* C3: whenever a handler is past the gate and about to read the index, the
\* IDs of the map are the IDs of the sequence.
C3_MapAndSequenceSwapTogether ==
    \A r \in Reqs :
        (pc[r] = "read" /\ req[r].handler \in {"postsHandler", "postHandler"})
            => DOMAIN posts = SeqIDs(orderedPosts)

\* C4: the etag header of every /feed response is the hash of the bytes of
\* its body, and the three parts come from one refresh (or all three are
\* the empty artifact of process start).
C4_FeedResponseFromOneArtifact ==
    \A r \in Reqs :
        (pc[r] = "done" /\ req[r].handler = "feedHandler" /\ resp[r].status = 200)
            => \/ resp[r].etag = ETagOf(resp[r].body)
               \/ /\ resp[r].etag = <<>>
                  /\ resp[r].lastModified = <<>>
                  /\ resp[r].body = <<>>

\* C10: the first request to call the gate after the watcher processed an
\* event reads the index or the feed, the directory being as the event left
\* it, only after a refresh that scanned that directory has completed.
C10_NextRequestSeesRescan ==
    \A r \in Reqs : (firstAfter[r] /\ pc[r] \in Reading) => fresh

\* The directory changed after request r scanned it, the watcher has
\* processed the event, and no refresh that scanned the directory as it is
\* now has completed.
ResetDuring(r) == pc[r] = "store" /\ ~loc[r].scanFresh /\ pending = 0 /\ ~fresh

\* C15: when a watcher event was processed while a refresh was executing
\* and the index that refresh built is stale, the step that ends the
\* refresh leaves the gate reset (done = 0).
C15_ResetSurvivesRefresh ==
    [][\A r \in Reqs : (ResetDuring(r) /\ StoreDone(r)) => postsOnce'.done = 0]_vars

\* C16: when parsePosts has returned to a request, feedETag is the quoted
\* hash of the stored feed and feedLastModified is set; and every /feed
\* response carries an etag and a last-modified that are not the empty
\* values of process start.
C16_ETagSetAfterEveryRefresh ==
    \A r \in Reqs :
        /\ (pc[r] = "store" /\ ~loc[r].panic) =>
              (feedETag = ETagOf(feed) /\ feedLastModified # <<>>)
        /\ (pc[r] = "done" /\ req[r].handler = "feedHandler" /\ resp[r].status = 200) =>
              (resp[r].etag # <<>> /\ resp[r].lastModified # <<>>)

\* Positions inside postsOnce.Do.
InDo == {"lock", "sleep", "check", "store", "unlock"} \cup InParsePosts

\* C14: the process never aborts, and every request inside postsOnce.Do
\* eventually returns from it, to its handler or with its response.
C14_GatedRequestsProceed ==
    /\ [](~aborted)
    /\ \A r \in Reqs : (pc[r] \in InDo) ~> (pc[r] \in Reading \cup {"done"})

-----------------------------------------------------------------------------
(* Properties of one request at a time (SpecOne) *)

\* C11: a finished request to /posts/:ID carries 404 exactly when its ID is
\* not a key of posts, and otherwise carries the entry of posts under its
\* ID, whose ID is the one requested.
C11_NotFoundIffAbsent ==
    \A r \in Reqs :
        (pc[r] = "done" /\ req[r].handler = "postHandler") =>
            /\ resp[r].status = 404 <=> req[r].ID \notin DOMAIN posts
            /\ resp[r].status # 404 =>
                  /\ resp[r].status = 200
                  /\ resp[r].Post = posts[req[r].ID]
                  /\ resp[r].Post.ID = req[r].ID

-----------------------------------------------------------------------------
(* Properties of errorHandler (SpecErr) *)

\* A call that found the response unwritten has returned.
Handled == errCall.pc = "returned" /\ ~errCall.Written0

\* C17, as stated: with debug mode off, the page of every response whose
\* status is in the 500 class carries the generic message, a status below
\* 400 has become 500, and a 4xx status keeps the error's own message.
C17_GenericMessageFor5xx ==
    (Handled /\ ~DebugMode) =>
        /\ errCall.Status \in 500..599 => errCall.Page[1].Message = Generic
        /\ errCall.Status0 < 400 => errCall.Status = 500
        /\ errCall.Status0 \in 400..499 =>
              (errCall.Status = errCall.Status0 /\ errCall.Page[1].Message = errCall.err)

\* C17, amended: a status below 400 becomes 500 and any other status is
\* kept; the page carries the generic message exactly when the resulting
\* status is 500 and debug mode is off, and the error's own message
\* otherwise, for 4xx and for 5xx other than 500 alike; a response already
\* written is left as it is.
C17_GenericMessageFor500 ==
    errCall.pc = "returned" =>
        IF errCall.Written0
        THEN /\ errCall.Status = errCall.Status0
             /\ errCall.Page = <<>>
             /\ errCall.Written
        ELSE /\ errCall.Status = (IF errCall.Status0 < 400 THEN 500 ELSE errCall.Status0)
             /\ errCall.Page[1].Code = errCall.Status
             /\ errCall.Page[1].Message =
                    (IF errCall.Status = 500 /\ ~DebugMode THEN Generic ELSE errCall.err)

\* errorHandler has rendered the page of a 503 with debug mode off.
C17_Witness ==
    /\ Handled
    /\ ~DebugMode
    /\ errCall.Status = 503
    /\ errCall.Page[1].Message = errCall.err

-----------------------------------------------------------------------------
(* Properties of parsePosts run to completion (SpecSeq) *)

FeedTriple == <<feed, feedETag, feedLastModified>>

\* C5, as stated: on every refresh that builds a feed, feedETag and
\* feedLastModified both change if and only if the bytes built differ from
\* the bytes stored, and identical bytes leave the three fields unchanged.
C5_ChangeIffBytesDiffer ==
    [][(SeqParsePosts /\ outcome' = "ok") =>
          /\ (feedETag' # feedETag /\ feedLastModified' # feedLastModified)
                <=> ~BytesEqual(built', feed)
          /\ BytesEqual(built', feed) => FeedTriple' = FeedTriple]_vars

\* C5, amended: identical bytes leave feed, feedETag and feedLastModified
\* unchanged; differing bytes replace feed, change feedETag to the hash of
\* the new bytes and set feedLastModified to the current time in whole
\* seconds, which is a new value only when the second has changed.
C5_RestampIffBytesDiffer ==
    [][(SeqParsePosts /\ outcome' = "ok") =>
          /\ BytesEqual(built', feed) => FeedTriple' = FeedTriple
          /\ ~BytesEqual(built', feed) =>
                /\ feed' = built'
                /\ feedETag' = ETagOf(built')
                /\ feedETag' # feedETag
                /\ feedLastModified' = HTTPTime(now)
          /\ (feedETag' # feedETag) <=> ~BytesEqual(built', feed)
          /\ (feedLastModified' # feedLastModified) => ~BytesEqual(built', feed)]_vars

\* Two refreshes have run, the second built the bytes already stored, in a
\* later second than the stamp.
C5_Witness ==
    /\ outcome = "ok"
    /\ repeated
    /\ BytesEqual(built, feed)
    /\ feedLastModified # <<>>
    /\ feedLastModified # HTTPTime(now)

\* C6: after any completed refresh orderedPosts is sorted non-increasing by
\* Datetime: no element is before its successor.
C6_SortedByDatetimeDesc ==
    \A i \in 1..(Len(orderedPosts) - 1) :
        ~After(orderedPosts[i + 1].Datetime, orderedPosts[i].Datetime)

\* A refresh has stored at least three posts, with a tie and a strict step.
C6_Witness ==
    /\ outcome = "ok"
    /\ Len(orderedPosts) >= 3
    /\ \E i \in 1..(Len(orderedPosts) - 1) :
          orderedPosts[i].Datetime.t = orderedPosts[i + 1].Datetime.t
    /\ \E i \in 1..(Len(orderedPosts) - 1) :
          orderedPosts[i].Datetime.t > orderedPosts[i + 1].Datetime.t

\* A valid post file, as the format is specified: readable, at least two
\* markers, and the bytes strictly between the first marker and the next one
\* after it decode as TOML.
ValidFile(f) ==
    /\ f.st = "ok"
    /\ Count(f.b) >= 2
    /\ LET i == Index(f.b)
           k == Index(SliceFrom(f.b, i + 3))
           p0 == [ID |-> <<>>, Title |-> <<>>, Datetime |-> ZeroTime, Content |-> <<>>]
       IN ~Unmarshal(Slice(f.b, i + 3, i + 3 + k), p0).err

NumValid(dir) == Cardinality({k \in DOMAIN dir : ValidFile(dir[k])})

\* C7: a refresh over N valid and M invalid files completes without error
\* and leaves exactly N posts, in the map and in the sequence.
C7_IndexHoldsTheValidFiles ==
    lastScan # <<>> =>
        /\ outcome = "ok"
        /\ Cardinality(DOMAIN posts) = NumValid(lastScan)
        /\ Len(orderedPosts) = NumValid(lastScan)

\* The post of a valid file: the file name gives the ID, the metadata
\* between the first marker and the next one the other fields.
PostOf(k, f) ==
    LET i == Index(f.b)
        n == Index(SliceFrom(f.b, i + 3))
        p0 == [ID |-> PostID(FileName(k)), Title |-> <<>>, Datetime |-> ZeroTime,
               Content |-> Run(SliceFrom(f.b, i + 3 + n + 3))]
        d == Unmarshal(Slice(f.b, i + 3, i + 3 + n), p0)
    IN [d.p EXCEPT !.Datetime = UTC(d.p.Datetime)]

ValidIDs(dir) == {PostOf(k, dir[k]).ID : k \in {x \in DOMAIN dir : ValidFile(dir[x])}}

\* C12: after a refresh the IDs of the map and of the sequence are the IDs
\* of the valid files the directory held at that refresh, so a file removed
\* or made invalid before it has no post in either.
C12_IndexIsTheLastScan ==
    lastScan # <<>> =>
        /\ DOMAIN posts = ValidIDs(lastScan)
        /\ SeqIDs(orderedPosts) = ValidIDs(lastScan)

\* C13: for every file with at least two markers that a refresh read, the
\* offsets i and j the code computes give slices within the file, the
\* metadata b[i+3:j] is the bytes strictly between the first marker and
\* the next marker after it, and the body b[j+3:] is the bytes after that
\* second marker.
C13_SpanBetweenTheMarkers ==
    \A k \in DOMAIN lastScan :
        LET b == lastScan[k].b
            o == Offsets(b)
            second == o.i + 3 + Index(SliceFrom(b, o.i + 3))
        IN (lastScan[k].st = "ok" /\ Count(b) >= 2) =>
              /\ o.i + 3 <= o.j
              /\ o.j + 3 <= Len(b)
              /\ Slice(b, o.i + 3, o.j) = Slice(b, o.i + 3, second)
              /\ SliceFrom(b, o.j + 3) = SliceFrom(b, second + 3)

\* C8: a refresh over the files the refresh before it saw leaves the map and
\* the ordered sequence as they were.
C8_RefreshIdempotent ==
    [][(SeqParsePosts /\ outcome = "ok" /\ lastScan = files) =>
          (posts' = posts /\ orderedPosts' = orderedPosts)]_vars

\* A second refresh has run over an unchanged directory of several posts.
C8_Witness ==
    /\ repeated
    /\ outcome = "ok"
    /\ Len(orderedPosts) >= 2

\* The entries of a feed document, in order.
FeedEntryIDs(doc) ==
    LET ix == {k \in 1..Len(doc) : doc[k].tag = "entry"}
        F[S \in SUBSET ix] ==
            IF S = {} THEN <<>>
            ELSE LET k == CHOOSE m \in S : \A o \in S : m <= o
                 IN <<[ID |-> doc[k].ID, Datetime |-> doc[k].Datetime]>> \o F[S \ {k}]
    IN F[ix]

MinOf(a, b) == IF a < b THEN a ELSE b

\* C9: the feed holds the first min(10, n) elements of the ordered sequence,
\* and no post left out is more recent than a post in it.
C9_FeedHoldsTheLatestTen ==
    outcome = "ok" =>
        LET n == Len(orderedPosts)
            m == MinOf(FeedCap, n)
            es == FeedEntryIDs(feed)
        IN /\ Len(es) = m
           /\ \A k \in 1..m : /\ es[k].ID = orderedPosts[k].ID
                              /\ es[k].Datetime = orderedPosts[k].Datetime
           /\ \A k \in 1..m, o \in (m + 1)..n :
                 ~After(orderedPosts[o].Datetime, orderedPosts[k].Datetime)

\* A refresh has stored more posts than the feed takes.
C9_Witness ==
    /\ outcome = "ok"
    /\ Len(orderedPosts) > FeedCap
    /\ Len(FeedEntryIDs(feed)) = FeedCap

=============================================================================
